---- MODULE Spec2Model ----
(***************************************************************************)
(* A model of dbt/node_runners.py: the per-node runners (BaseRunner,       *)
(* CompileRunner, ModelRunner, TestRunner, ArchiveRunner) and the          *)
(* batch-wide hooks of ModelRunner (before_run / after_run).               *)
(*                                                                         *)
(* Two specifications share the variables:                                 *)
(*   Spec       the node tasks: each task is one runner instance on which  *)
(*              the batch driver calls safe_run or on_skip;                *)
(*   SpecBatch  one call of ModelRunner.before_run or ModelRunner.after_run*)
(***************************************************************************)
EXTENDS Integers, Sequences, FiniteSets, TLC

(* ------------------------------ bounds -------------------------------- *)
\* most rows / columns an assertion query of a test returns
MaxRows == 2
MaxCols == 2
\* most nodes in the flat graph handed to before_run / after_run
MaxGraph == 3

(* ------------------------------ values -------------------------------- *)
None == "None"

Tasks == {"t1", "t2"}

\* NodeType / RunHookType (dbt.node_types, imported at line 5)
Model == "model"
Test == "test"
Archive == "archive"
Operation == "operation"
HookStart == "on-run-start"
HookEnd == "on-run-end"

\* the runner class the driver constructs, with the kind of node it is given
RunnerNodes ==
    { <<"ModelRunner", Model, "table">>,
      <<"ModelRunner", Model, "ephemeral">>,
      <<"TestRunner", Test, "view">>,
      <<"TestRunner", Test, "ephemeral">>,
      <<"CompileRunner", Model, "view">>,
      <<"ArchiveRunner", Archive, "table">> }

\* the node of task t as the parser made it
MkNode(t, k) ==
    [name |-> t, resource_type |-> k[2], materialization |-> k[3], compiled |-> FALSE]

\* Python's None where a node is expected
NoNode ==
    [name |-> None, resource_type |-> None, materialization |-> None, compiled |-> FALSE]

\* a node other than the runner's own, carried by a fault raised upstream
UpstreamNode ==
    [name |-> "upstream", resource_type |-> Model, materialization |-> "ephemeral",
     compiled |-> FALSE]

\* status strings a materialization macro deposits under "main"
Statuses == {"CREATE TABLE", "INSERT 0 1"}
\* scalars an assertion query yields (0 = pass, >0 = failing rows), as text
Scalars == {"0", "3"}
OtherCell == "9"

(* ------------------------------ faults -------------------------------- *)
CompilationException == "CompilationException"
RuntimeException == "RuntimeException"
InternalException == "InternalException"
RuntimeError == "RuntimeError"
IndexError == "IndexError"
OtherException == "Exception"

Fault(cls, node, msg) == [cls |-> cls, node |-> node, msg |-> msg]

\* what a collaborator outside this file (compiler, macro, adapter) may raise
ExternalFaults ==
    { Fault(c, n, "error in " \o c) :
        c \in {CompilationException, RuntimeException}, n \in {NoNode, UpstreamNode} }
    \cup { Fault(InternalException, NoNode, "internal"),
           Fault(OtherException, NoNode, "unhandled") }

\* no fault in flight
NoFault == Fault(None, NoNode, None)

VARIABLES
    runner,         \* task -> runner class
    node,           \* task -> self.node
    pc,             \* task -> position in safe_run / on_skip
    result,         \* task -> the local `result` of safe_run (the outcome once returned)
    compiled_node,  \* task -> the local `compiled_node`
    exc,            \* task -> the fault raised inside the try block (NoFault if none)
    raising,        \* task -> the fault is propagating out of safe_run
    calls,          \* task -> the calls the task has made, in order
    fetched,        \* task -> the rows execute_test got from execute_and_fetch
    bpc,            \* position in before_run / after_run
    phase,          \* which batch hook is called
    flat_graph,     \* flat_graph['nodes'].values(), in iteration order
    existing,       \* adapter.get_existing_schemas(profile)
    strict_mode,    \* dbt.flags.STRICT_MODE
    todo,           \* schemas create_schemas still has to create
    hooks,          \* run_hooks: the list hooks
    compiled_hooks, \* run_hooks: the list compiled_hooks
    hook_i,         \* run_hooks: how many compiled hooks the second loop has done
    adapter_calls,  \* the adapter calls of the batch hook, in order
    bexc,           \* the fault in flight in the batch hook
    printed         \* lines emitted by the batch hook

nodeVars == <<runner, node, pc, result, compiled_node, exc, raising, calls, fetched>>
batchVars == <<bpc, phase, flat_graph, existing, strict_mode, todo, hooks,
               compiled_hooks, hook_i, adapter_calls, bexc, printed>>
vars == <<runner, node, pc, result, compiled_node, exc, raising, calls, fetched,
          bpc, phase, flat_graph, existing, strict_mode, todo, hooks,
          compiled_hooks, hook_i, adapter_calls, bexc, printed>>

(* --------------------------- RunModelResult --------------------------- *)
RunModelResult(n, error, skip, status) ==
    [node |-> n, error |-> error, skip |-> skip, status |-> status, fail |-> None]

(* ----------------------------- BaseRunner ----------------------------- *)
is_model(n) == n.resource_type = Model

is_ephemeral(n) == n.materialization = "ephemeral"

\* a variant of is_ephemeral_model: the test of the resource type is left out
is_ephemeral_model_AnyType(n) == is_ephemeral(n)

is_ephemeral_model(n) == is_model(n) /\ is_ephemeral(n)

\* a variant of catchable_errors: Python's RuntimeError is taken for dbt's
\* RuntimeException
catchable_errors_RuntimeError == {CompilationException, RuntimeException, RuntimeError}

catchable_errors == {CompilationException, RuntimeException}

\* dbt.compat.to_string(e)
to_string(e) == e.msg

\* one call made by a task: what is called and its argument
Op(op, arg) == [op |-> op, arg |-> arg]

Call(t, c) == calls' = [calls EXCEPT ![t] = Append(@, c)]

\* the node CompileRunner.compile returns
CompiledOf(n) == [n EXCEPT !.compiled = TRUE]

\* safe_run, lines 97-103: the fresh result, then compile is entered
SafeRunBegin(t) ==
    /\ pc[t] = "pending"
    /\ result' = [result EXCEPT ![t] = RunModelResult(node[t], None, FALSE, None)]
    /\ Call(t, Op("compile", node[t].name))
    /\ pc' = [pc EXCEPT ![t] = "compiling"]
    /\ UNCHANGED <<fetched, runner, node, compiled_node, exc, raising, batchVars>>

\* lines 103-104: compile returns the compiled node
CompileReturn(t) ==
    /\ pc[t] = "compiling"
    /\ compiled_node' = [compiled_node EXCEPT ![t] = CompiledOf(node[t])]
    /\ result' = [result EXCEPT ![t].node = CompiledOf(node[t])]
    /\ pc' = [pc EXCEPT ![t] = "compiled"]
    /\ UNCHANGED <<fetched, runner, node, exc, raising, calls, batchVars>>

\* a variant of CompileRaise: the fault of compile is noted and safe_run goes
\* on to run the node
CompileRaise_GoOn(t) ==
    /\ pc[t] = "compiling"
    /\ \E f \in ExternalFaults : exc' = [exc EXCEPT ![t] = f]
    /\ pc' = [pc EXCEPT ![t] = "compiled"]
    /\ UNCHANGED <<fetched, runner, node, result, compiled_node, raising, calls, batchVars>>

\* line 103: compile raises
CompileRaise(t) ==
    /\ pc[t] = "compiling"
    /\ \E f \in ExternalFaults : exc' = [exc EXCEPT ![t] = f]
    /\ pc' = [pc EXCEPT ![t] = "except"]
    /\ UNCHANGED <<fetched, runner, node, result, compiled_node, raising, calls, batchVars>>

\* lines 107-108: ephemeral models are compiled, not run
RunUnlessEphemeral(t) ==
    /\ pc[t] = "compiled"
    /\ IF ~is_ephemeral_model(node[t])
         THEN /\ Call(t, Op("run", node[t].name))
              /\ pc' = [pc EXCEPT ![t] = "executing"]
         ELSE /\ pc' = [pc EXCEPT ![t] = "finally"]
              /\ UNCHANGED calls
    /\ UNCHANGED <<fetched, runner, node, result, compiled_node, exc, raising, batchVars>>

(* ---------------------------- CompileRunner --------------------------- *)
\* CompileRunner.execute, lines 204-205
ExecuteCompile(t) ==
    /\ pc[t] = "executing"
    /\ runner[t] = "CompileRunner"
    /\ result' = [result EXCEPT ![t] =
                    RunModelResult(compiled_node[t], None, FALSE, None)]
    /\ pc' = [pc EXCEPT ![t] = "finally"]
    /\ UNCHANGED <<fetched, runner, node, compiled_node, exc, raising, calls, batchVars>>

(* ----------------------------- ModelRunner ---------------------------- *)
\* self.adapter.type(), lines 382 and 387
adapter_type == "postgres"

\* dbt.exceptions.missing_materialization(model, adapter_type), lines 385-387:
\* raises the fault of a missing materialization, made of the node and the
\* adapter kind
missing_materialization(model, kind) ==
    Fault(CompilationException, model,
          "No materialization " \o model.materialization \o " for adapter " \o kind)

\* a variant of ModelResult: the status of the "main" result is not passed on
ModelResult_NoStatus(model, status) == RunModelResult(model, None, FALSE, None)

\* line 393: RunModelResult(model, status=result.status)
ModelResult(model, status) == RunModelResult(model, None, FALSE, status)

\* a variant of ExecuteModel: the lookup result is used without the test for
\* None, so a missing macro fails on materialization_macro.get
ExecuteModel_NoCheck(t) ==
    /\ pc[t] = "executing"
    /\ runner[t] \in {"ModelRunner", "ArchiveRunner"}
    /\ \E materialization_macro \in {None, "macro"} :
         LET lookup == Op("get_materialization_macro", materialization_macro) IN
         IF materialization_macro = None
           THEN /\ exc' = [exc EXCEPT ![t] =
                    Fault("AttributeError", NoNode, "'NoneType' object has no attribute 'get'")]
                /\ pc' = [pc EXCEPT ![t] = "except"]
                /\ Call(t, lookup)
                /\ UNCHANGED result
           ELSE \/ \E f \in ExternalFaults :
                     /\ exc' = [exc EXCEPT ![t] = f]
                     /\ pc' = [pc EXCEPT ![t] = "except"]
                     /\ calls' = [calls EXCEPT ![t] = @ \o << lookup, Op("macro", None) >>]
                     /\ UNCHANGED result
                \/ \E s \in Statuses :
                     /\ calls' = [calls EXCEPT ![t] =
                          @ \o << lookup, Op("macro", s), Op("load_result", "main") >>]
                     /\ result' = [result EXCEPT ![t] = ModelResult(compiled_node[t], s)]
                     /\ pc' = [pc EXCEPT ![t] = "finally"]
                     /\ UNCHANGED exc
    /\ UNCHANGED <<fetched, runner, node, compiled_node, raising, batchVars>>

\* ModelRunner.execute, lines 376-393 (inherited by ArchiveRunner): the macro
\* is looked up; a missing one is a fault; the macro runs and raises, or
\* deposits a result with status s under "main", which is read back
ExecuteModel(t) ==
    /\ pc[t] = "executing"
    /\ runner[t] \in {"ModelRunner", "ArchiveRunner"}
    /\ \E materialization_macro \in {None, "macro"} :
         LET lookup == Op("get_materialization_macro", materialization_macro) IN
         IF materialization_macro = None
           THEN /\ exc' = [exc EXCEPT ![t] =
                    missing_materialization(compiled_node[t], adapter_type)]
                /\ pc' = [pc EXCEPT ![t] = "except"]
                /\ Call(t, lookup)
                /\ UNCHANGED result
           ELSE \/ \E f \in ExternalFaults :
                     /\ exc' = [exc EXCEPT ![t] = f]
                     /\ pc' = [pc EXCEPT ![t] = "except"]
                     /\ calls' = [calls EXCEPT ![t] = @ \o << lookup, Op("macro", None) >>]
                     /\ UNCHANGED result
                \/ \E s \in Statuses :
                     /\ calls' = [calls EXCEPT ![t] =
                          @ \o << lookup, Op("macro", s), Op("load_result", "main") >>]
                     /\ result' = [result EXCEPT ![t] = ModelResult(compiled_node[t], s)]
                     /\ pc' = [pc EXCEPT ![t] = "finally"]
                     /\ UNCHANGED exc
    /\ UNCHANGED <<fetched, runner, node, compiled_node, raising, batchVars>>

(* ----------------------------- TestRunner ----------------------------- *)
\* the row sets adapter.execute_and_fetch may return: every row has the same
\* number of columns; the first cell is the scalar of the assertion
Rows(nr, nc, v) ==
    [i \in 1..nr |-> [j \in 1..nc |-> IF i = 1 /\ j = 1 THEN v ELSE OtherCell]]

RowSets == { Rows(nr, nc, v) : nr \in 0..MaxRows, nc \in 0..MaxCols, v \in Scalars }

BadTestMessage(name, num_rows, num_cols) ==
    "Bad test " \o name \o ": Returned " \o ToString(num_rows) \o " rows and "
        \o ToString(num_cols) \o " cols"

\* a variant of execute_test: row 0 / column 0 is read without the row count
\* being checked
execute_test_NoCheck(test, rows) ==
    IF Len(rows) = 0
      THEN [raised |-> TRUE, value |-> None,
            fault |-> Fault(IndexError, NoNode, "list index out of range")]
    ELSE IF Len(rows[1]) = 0
      THEN [raised |-> TRUE, value |-> None,
            fault |-> Fault(IndexError, NoNode, "tuple index out of range")]
    ELSE [raised |-> FALSE, value |-> rows[1][1], fault |-> NoFault]

\* what execute_test does with the fetched rows, lines 424-431: a fault or
\* the scalar
execute_test(test, rows) ==
    LET num_rows == Len(rows) IN
    IF num_rows > 1
      THEN [raised |-> TRUE, value |-> None,
            fault |-> Fault(RuntimeError, NoNode,
                            BadTestMessage(test.name, num_rows, Len(rows[1])))]
      ELSE IF num_rows = 0
        THEN [raised |-> TRUE, value |-> None,
              fault |-> Fault(IndexError, NoNode, "list index out of range")]
      ELSE IF Len(rows[1]) = 0
        THEN [raised |-> TRUE, value |-> None,
              fault |-> Fault(IndexError, NoNode, "tuple index out of range")]
      ELSE [raised |-> FALSE, value |-> rows[1][1], fault |-> NoFault]

\* TestRunner.execute, lines 417-438
ExecuteTest(t) ==
    /\ pc[t] = "executing"
    /\ runner[t] = "TestRunner"
    /\ Call(t, Op("execute_and_fetch", compiled_node[t].name))
    /\ \/ \E f \in ExternalFaults :
            /\ exc' = [exc EXCEPT ![t] = f]
            /\ pc' = [pc EXCEPT ![t] = "except"]
            /\ UNCHANGED <<result, fetched>>
       \/ \E rows \in RowSets :
            LET r == execute_test(compiled_node[t], rows) IN
            /\ fetched' = [fetched EXCEPT ![t] = [done |-> TRUE, rows |-> rows]]
            /\ IF r.raised
                 THEN /\ exc' = [exc EXCEPT ![t] = r.fault]
                      /\ pc' = [pc EXCEPT ![t] = "except"]
                      /\ UNCHANGED result
                 ELSE /\ result' = [result EXCEPT ![t] =
                           RunModelResult(compiled_node[t], None, FALSE, r.value)]
                      /\ pc' = [pc EXCEPT ![t] = "finally"]
                      /\ UNCHANGED exc
    /\ UNCHANGED <<runner, node, compiled_node, raising, batchVars>>

(* ------------------- safe_run: the except clauses --------------------- *)
\* a variant of ExceptCatchable: the errored outcome is marked skipped too
ExceptCatchable_MarkSkipped(t) ==
    /\ pc[t] = "except"
    /\ exc[t].cls \in catchable_errors
    /\ exc' = [exc EXCEPT ![t].node =
                 IF exc[t].node = NoNode THEN result[t].node ELSE @]
    /\ result' = [result EXCEPT ![t].error = to_string(exc[t]),
                                ![t].status = "ERROR",
                                ![t].skip = TRUE]
    /\ pc' = [pc EXCEPT ![t] = "finally"]
    /\ UNCHANGED <<fetched, runner, node, compiled_node, raising, calls, batchVars>>

\* lines 110-115
ExceptCatchable(t) ==
    /\ pc[t] = "except"
    /\ exc[t].cls \in catchable_errors
    /\ exc' = [exc EXCEPT ![t].node =
                 IF exc[t].node = NoNode THEN result[t].node ELSE @]
    /\ result' = [result EXCEPT ![t].error = to_string(exc[t]),
                                ![t].status = "ERROR"]
    /\ pc' = [pc EXCEPT ![t] = "finally"]
    /\ UNCHANGED <<fetched, runner, node, compiled_node, raising, calls, batchVars>>

\* a variant of ExceptInternal: the internal fault is logged and raised again
ExceptInternal_Reraise(t) ==
    /\ pc[t] = "except"
    /\ exc[t].cls = InternalException
    /\ raising' = [raising EXCEPT ![t] = TRUE]
    /\ pc' = [pc EXCEPT ![t] = "finally"]
    /\ UNCHANGED <<fetched, runner, node, result, compiled_node, exc, calls, batchVars>>

\* lines 117-128
ExceptInternal(t) ==
    /\ pc[t] = "except"
    /\ exc[t].cls = InternalException
    /\ result' = [result EXCEPT ![t].error = to_string(exc[t]),
                                ![t].status = "ERROR"]
    /\ pc' = [pc EXCEPT ![t] = "finally"]
    /\ UNCHANGED <<fetched, runner, node, compiled_node, exc, raising, calls, batchVars>>

\* a variant of ExceptOther: the fault is logged and captured, not raised
ExceptOther_Swallow(t) ==
    /\ pc[t] = "except"
    /\ exc[t].cls \notin catchable_errors \cup {InternalException}
    /\ result' = [result EXCEPT ![t].error = to_string(exc[t]),
                                ![t].status = "ERROR"]
    /\ pc' = [pc EXCEPT ![t] = "finally"]
    /\ UNCHANGED <<fetched, runner, node, compiled_node, exc, raising, calls, batchVars>>

\* lines 130-139
ExceptOther(t) ==
    /\ pc[t] = "except"
    /\ exc[t].cls \notin catchable_errors \cup {InternalException}
    /\ raising' = [raising EXCEPT ![t] = TRUE]
    /\ pc' = [pc EXCEPT ![t] = "finally"]
    /\ UNCHANGED <<fetched, runner, node, result, compiled_node, exc, calls, batchVars>>

\* a variant of Finally: the release follows the try statement instead of
\* being its finally clause, so a propagating fault skips it
Finally_ReleaseAfterTry(t) ==
    /\ pc[t] = "finally"
    /\ IF raising[t] THEN UNCHANGED calls
       ELSE Call(t, Op("release_connection", node[t].name))
    /\ pc' = [pc EXCEPT ![t] = IF raising[t] THEN "raised" ELSE "returned"]
    /\ UNCHANGED <<fetched, runner, node, result, compiled_node, exc, raising, batchVars>>

\* a variant of Finally: the name of the connection to release is read from
\* state shared by the runners, which another task's runner has overwritten
Finally_ReleaseOther(t) ==
    /\ pc[t] = "finally"
    /\ Call(t, Op("release_connection", node[CHOOSE u \in Tasks : u # t].name))
    /\ pc' = [pc EXCEPT ![t] = IF raising[t] THEN "raised" ELSE "returned"]
    /\ UNCHANGED <<fetched, runner, node, result, compiled_node, exc, raising, batchVars>>

\* lines 141-146: the connection is released, then control leaves safe_run
Finally(t) ==
    /\ pc[t] = "finally"
    /\ Call(t, Op("release_connection", node[t].name))
    /\ pc' = [pc EXCEPT ![t] = IF raising[t] THEN "raised" ELSE "returned"]
    /\ UNCHANGED <<fetched, runner, node, result, compiled_node, exc, raising, batchVars>>

\* a variant of OnSkip: the skip line is printed for every node
OnSkip_AlwaysPrint(t) ==
    /\ pc[t] = "pending"
    /\ Call(t, Op("print_skip_line", node[t].name))
    /\ result' = [result EXCEPT ![t] = RunModelResult(node[t], None, TRUE, None)]
    /\ pc' = [pc EXCEPT ![t] = "skipped"]
    /\ UNCHANGED <<fetched, runner, node, compiled_node, exc, raising, batchVars>>

\* on_skip, lines 160-169
OnSkip(t) ==
    /\ pc[t] = "pending"
    /\ IF ~is_ephemeral_model(node[t])
         THEN Call(t, Op("print_skip_line", node[t].name))
         ELSE UNCHANGED calls
    /\ result' = [result EXCEPT ![t] = RunModelResult(node[t], None, TRUE, None)]
    /\ pc' = [pc EXCEPT ![t] = "skipped"]
    /\ UNCHANGED <<fetched, runner, node, compiled_node, exc, raising, batchVars>>
(* ------------------------- the node tasks ----------------------------- *)
\* execute_and_fetch has not returned
NotFetched == [done |-> FALSE, rows |-> << >>]

NoResult == RunModelResult(NoNode, None, FALSE, None)

\* the batch hook is not running
BatchIdle ==
    /\ bpc = "idle"
    /\ phase = None
    /\ flat_graph = << >>
    /\ existing = {}
    /\ strict_mode = FALSE
    /\ todo = {}
    /\ hooks = << >>
    /\ compiled_hooks = << >>
    /\ hook_i = 0
    /\ adapter_calls = << >>
    /\ bexc = NoFault
    /\ printed = << >>

\* BaseRunner.__init__, lines 68-76: one fresh runner per task, each on its
\* own node
Init ==
    /\ \E k \in [Tasks -> RunnerNodes] :
         /\ runner = [t \in Tasks |-> k[t][1]]
         /\ node = [t \in Tasks |-> MkNode(t, k[t])]
    /\ pc = [t \in Tasks |-> "pending"]
    /\ result = [t \in Tasks |-> NoResult]
    /\ compiled_node = [t \in Tasks |-> NoNode]
    /\ exc = [t \in Tasks |-> NoFault]
    /\ raising = [t \in Tasks |-> FALSE]
    /\ calls = [t \in Tasks |-> << >>]
    /\ fetched = [t \in Tasks |-> NotFetched]
    /\ BatchIdle

Next ==
    \E t \in Tasks :
        \/ SafeRunBegin(t)
        \/ CompileReturn(t)
        \/ CompileRaise(t)
        \/ RunUnlessEphemeral(t)
        \/ ExecuteCompile(t)
        \/ ExecuteModel(t)
        \/ ExecuteTest(t)
        \/ ExceptCatchable(t)
        \/ ExceptInternal(t)
        \/ ExceptOther(t)
        \/ Finally(t)
        \/ OnSkip(t)

Spec == Init /\ [][Next]_vars
(* ------------- ModelRunner: the batch hooks before_run / after_run ----- *)
Schemas == {"a", "b"}

GraphNode(rt, mat, schema, tag) ==
    [resource_type |-> rt, materialization |-> mat, schema |-> schema, tag |-> tag]

\* the kinds of node a flat graph holds; a hook is an Operation tagged with
\* the phase it runs in
GraphNodes ==
    { GraphNode(Model, "table", "a", None),
      GraphNode(Model, "table", "b", None),
      GraphNode(Model, "ephemeral", "b", None),
      GraphNode(Test, "view", "b", None),
      GraphNode(Operation, "view", "a", HookStart),
      GraphNode(Operation, "view", "a", HookEnd) }

\* one adapter call of the batch hook
\* (auto_begin is "True" / "False", or None for a call that takes none)
AdapterCall(op, arg, conn, auto_begin) ==
    [op |-> op, arg |-> arg, conn |-> conn, auto_begin |-> auto_begin]

BCall(c) == adapter_calls' = Append(adapter_calls, c)

\* a variant of get_model_schemas: ephemeral models are not left out
get_model_schemas_All(graph) ==
    { graph[i].schema : i \in { j \in 1..Len(graph) : is_model(graph[j]) } }

\* get_model_schemas, lines 174-181
get_model_schemas(graph) ==
    { graph[i].schema : i \in { j \in 1..Len(graph) :
                                  is_model(graph[j]) /\ ~is_ephemeral(graph[j]) } }

\* dbt.utils.get_nodes_by_tags(nodes, {hook_type}, NodeType.Operation), line
\* 277: the hooks of the phase in graph order, each named by its place
RECURSIVE get_nodes_by_tags(_, _, _)
get_nodes_by_tags(graph, hook_type, i) ==
    IF i > Len(graph) THEN << >>
    ELSE IF graph[i].resource_type = Operation /\ graph[i].tag = hook_type
      THEN << "hook" \o ToString(i) >> \o get_nodes_by_tags(graph, hook_type, i + 1)
      ELSE get_nodes_by_tags(graph, hook_type, i + 1)

\* the connection name clear_transaction returns, line 286
conn_name == "master"

hook_type == IF phase = "before_run" THEN HookStart ELSE HookEnd

\* before_run -> create_schemas, lines 316-319
BeforeRun ==
    /\ bpc = "idle"
    /\ phase = "before_run"
    /\ BCall(AdapterCall("get_existing_schemas", None, None, None))
    /\ todo' = get_model_schemas(flat_graph) \ existing
    /\ bpc' = "create_schemas"
    /\ UNCHANGED <<nodeVars, phase, flat_graph, existing, strict_mode, hooks,
                   compiled_hooks, hook_i, bexc, printed>>

\* one turn of the loop of create_schemas, lines 321-322; create_schema may
\* raise
CreateSchema ==
    /\ bpc = "create_schemas"
    /\ \E schema \in todo :
         /\ BCall(AdapterCall("create_schema", schema, None, None))
         /\ todo' = todo \ {schema}
    /\ \/ bpc' = bpc /\ bexc' = bexc
       \/ \E f \in ExternalFaults : bexc' = f /\ bpc' = "raised"
    /\ UNCHANGED <<nodeVars, phase, flat_graph, existing, strict_mode, hooks,
                   compiled_hooks, hook_i, printed>>

\* a variant of RunHooksBegin: the hooks are compiled and run without the
\* transaction being cleared first
RunHooksBegin_NoClear ==
    /\ \/ phase = "before_run" /\ bpc = "create_schemas" /\ todo = {}
       \/ phase = "after_run" /\ bpc = "idle"
    /\ hooks' = get_nodes_by_tags(flat_graph, hook_type, 1)
    /\ compiled_hooks' = << >>
    /\ hook_i' = 0
    /\ bpc' = "run_hooks"
    /\ UNCHANGED <<nodeVars, phase, flat_graph, existing, strict_mode, todo, bexc,
                   printed, adapter_calls>>

\* a variant of RunHooksBegin: before_run runs the hooks without waiting for
\* the loop of create_schemas to end
RunHooksBegin_Early ==
    /\ \/ phase = "before_run" /\ bpc = "create_schemas"
       \/ phase = "after_run" /\ bpc = "idle"
    /\ hooks' = get_nodes_by_tags(flat_graph, hook_type, 1)
    /\ BCall(AdapterCall("clear_transaction", None, None, None))
    /\ compiled_hooks' = << >>
    /\ hook_i' = 0
    /\ bpc' = "run_hooks"
    /\ UNCHANGED <<nodeVars, phase, flat_graph, existing, strict_mode, todo, bexc,
                   printed>>

\* safe_run_hooks -> run_hooks, lines 274-288: called by before_run once the
\* schemas exist, and first thing by after_run
RunHooksBegin ==
    /\ \/ phase = "before_run" /\ bpc = "create_schemas" /\ todo = {}
       \/ phase = "after_run" /\ bpc = "idle"
    /\ hooks' = get_nodes_by_tags(flat_graph, hook_type, 1)
    /\ BCall(AdapterCall("clear_transaction", None, None, None))
    /\ compiled_hooks' = << >>
    /\ hook_i' = 0
    /\ bpc' = "run_hooks"
    /\ UNCHANGED <<nodeVars, phase, flat_graph, existing, strict_mode, todo, bexc,
                   printed>>

\* one turn of the first loop of run_hooks, lines 289-295: the next hook is
\* compiled, or its compilation raises
CompileHook ==
    /\ bpc = "run_hooks"
    /\ Len(compiled_hooks) < Len(hooks)
    /\ \/ /\ compiled_hooks' = Append(compiled_hooks, hooks[Len(compiled_hooks) + 1])
          /\ UNCHANGED <<bpc, bexc>>
       \/ /\ \E f \in ExternalFaults : bexc' = f
          /\ bpc' = "hooks_except"
          /\ UNCHANGED compiled_hooks
    /\ UNCHANGED <<nodeVars, phase, flat_graph, existing, strict_mode, todo, hooks,
                   hook_i, adapter_calls, printed>>

\* a variant of RunHook: each hook's statement is run as soon as the hook is
\* compiled, the later hooks being compiled afterwards
RunHook_Eager ==
    /\ bpc = "run_hooks"
    /\ hook_i < Len(compiled_hooks)
    /\ LET sql == compiled_hooks[hook_i + 1]
           stmt == AdapterCall("execute_one", sql, conn_name, "False")
       IN  \/ /\ strict_mode
              /\ \E f \in ExternalFaults : bexc' = f
              /\ bpc' = "hooks_except"
              /\ UNCHANGED <<adapter_calls, hook_i>>
           \/ /\ BCall(stmt)
              /\ \E f \in ExternalFaults : bexc' = f
              /\ bpc' = "hooks_except"
              /\ UNCHANGED hook_i
           \/ /\ adapter_calls' = adapter_calls \o
                    << stmt, AdapterCall("release_connection", None, conn_name, None) >>
              /\ hook_i' = hook_i + 1
              /\ UNCHANGED <<bpc, bexc>>
    /\ UNCHANGED <<nodeVars, phase, flat_graph, existing, strict_mode, todo, hooks,
                   compiled_hooks, printed>>

\* one turn of the second loop of run_hooks, lines 297-305: validation under
\* STRICT_MODE, the statement, the release
RunHook ==
    /\ bpc = "run_hooks"
    /\ Len(compiled_hooks) = Len(hooks)
    /\ hook_i < Len(compiled_hooks)
    /\ LET sql == compiled_hooks[hook_i + 1]
           stmt == AdapterCall("execute_one", sql, conn_name, "False")
       IN  \/ /\ strict_mode
              /\ \E f \in ExternalFaults : bexc' = f
              /\ bpc' = "hooks_except"
              /\ UNCHANGED <<adapter_calls, hook_i>>
           \/ /\ BCall(stmt)
              /\ \E f \in ExternalFaults : bexc' = f
              /\ bpc' = "hooks_except"
              /\ UNCHANGED hook_i
           \/ /\ adapter_calls' = adapter_calls \o
                    << stmt, AdapterCall("release_connection", None, conn_name, None) >>
              /\ hook_i' = hook_i + 1
              /\ UNCHANGED <<bpc, bexc>>
    /\ UNCHANGED <<nodeVars, phase, flat_graph, existing, strict_mode, todo, hooks,
                   compiled_hooks, printed>>

\* a variant of SafeRunHooksExcept: a RuntimeException is logged and not
\* raised again
SafeRunHooksExcept_Swallow ==
    /\ bpc = "hooks_except"
    /\ IF bexc.cls = RuntimeException
         THEN /\ printed' = Append(printed, "Database error while running " \o hook_type)
              /\ bpc' = "done"
         ELSE /\ UNCHANGED printed
              /\ bpc' = "raised"
    /\ UNCHANGED <<nodeVars, phase, flat_graph, existing, strict_mode, todo, hooks,
                   compiled_hooks, hook_i, adapter_calls, bexc>>

\* safe_run_hooks, lines 311-313: a RuntimeException is logged and raised
\* again; any other fault passes through
SafeRunHooksExcept ==
    /\ bpc = "hooks_except"
    /\ IF bexc.cls = RuntimeException
         THEN printed' = Append(printed, "Database error while running " \o hook_type)
         ELSE UNCHANGED printed
    /\ bpc' = "raised"
    /\ UNCHANGED <<nodeVars, phase, flat_graph, existing, strict_mode, todo, hooks,
                   compiled_hooks, hook_i, adapter_calls, bexc>>

\* run_hooks returns: before_run is done (line 327); after_run goes on to
\* print_results_line (lines 330-348)
RunHooksReturn ==
    /\ bpc = "run_hooks"
    /\ Len(compiled_hooks) = Len(hooks)
    /\ hook_i = Len(compiled_hooks)
    /\ IF phase = "after_run"
         THEN printed' = printed \o << "", "Finished running" >>
         ELSE UNCHANGED printed
    /\ bpc' = "done"
    /\ UNCHANGED <<nodeVars, phase, flat_graph, existing, strict_mode, todo, hooks,
                   compiled_hooks, hook_i, adapter_calls, bexc>>

Graphs == UNION { [1..n -> GraphNodes] : n \in 0..MaxGraph }

\* the batch driver is about to call before_run or after_run of ModelRunner;
\* no node task is running
InitBatch ==
    /\ runner = [t \in Tasks |-> "ModelRunner"]
    /\ node = [t \in Tasks |-> MkNode(t, <<"ModelRunner", Model, "table">>)]
    /\ pc = [t \in Tasks |-> "pending"]
    /\ result = [t \in Tasks |-> NoResult]
    /\ compiled_node = [t \in Tasks |-> NoNode]
    /\ exc = [t \in Tasks |-> NoFault]
    /\ raising = [t \in Tasks |-> FALSE]
    /\ calls = [t \in Tasks |-> << >>]
    /\ fetched = [t \in Tasks |-> NotFetched]
    /\ bpc = "idle"
    /\ phase \in {"before_run", "after_run"}
    /\ flat_graph \in Graphs
    /\ existing \in SUBSET Schemas
    /\ strict_mode \in BOOLEAN
    /\ todo = {}
    /\ hooks = << >>
    /\ compiled_hooks = << >>
    /\ hook_i = 0
    /\ adapter_calls = << >>
    /\ bexc = NoFault
    /\ printed = << >>

NextBatch ==
    \/ BeforeRun
    \/ CreateSchema
    \/ RunHooksBegin
    \/ CompileHook
    \/ RunHook
    \/ SafeRunHooksExcept
    \/ RunHooksReturn

SpecBatch == InitBatch /\ [][NextBatch]_vars
(* ======================= properties: safe_run ========================= *)
\* how many calls of `op` there are in a sequence of calls
RECURSIVE CountOp(_, _)
CountOp(cs, op) ==
    IF cs = << >> THEN 0
    ELSE (IF Head(cs).op = op THEN 1 ELSE 0) + CountOp(Tail(cs), op)

\* control has left safe_run
Left(t) == pc[t] \in {"returned", "raised"}

\* safe_run is in progress or over (and on_skip was not taken)
InSafeRun(t) == pc[t] \notin {"pending", "skipped"}

\* C1: whatever compile and execute do, release_connection is called exactly
\* once, with the node's name, before control leaves safe_run: never twice
\* while safe_run runs, and once control has left (an outcome returned or a
\* fault propagating) the release has happened and it named self.node's name.
C1_ReleasedExactlyOnce ==
    \A t \in Tasks :
        /\ CountOp(calls[t], "release_connection") <= 1
        /\ Left(t) =>
             /\ CountOp(calls[t], "release_connection") = 1
             /\ calls[t][Len(calls[t])] = Op("release_connection", node[t].name)

\* both exits of safe_run are taken, each after its release
C1_Witness ==
    /\ pc["t1"] = "raised"
    /\ pc["t2"] = "returned"
    /\ result["t2"].error # None
    /\ CountOp(calls["t1"], "release_connection") = 1
    /\ CountOp(calls["t2"], "release_connection") = 1

Captured == catchable_errors \cup {InternalException}

\* the outcome safe_run returns for a captured fault
C2_OutcomeOfCaptured(t) ==
    /\ result[t].error = exc[t].msg
    /\ result[t].status = "ERROR"
    /\ result[t].node # NoNode
    /\ result[t].node = IF compiled_node[t] = NoNode THEN node[t]
                        ELSE [node[t] EXCEPT !.compiled = TRUE]
    /\ exc[t].cls \in catchable_errors => exc[t].node # NoNode

\* C2: a catchable fault (CompilationException, RuntimeException) or an
\* internal fault (InternalException) raised by compile or execute is not
\* raised again: safe_run returns an outcome whose error is the fault's text,
\* whose status is "ERROR" and whose node is the original node when compile
\* faulted and the compiled node when execute faulted; handling a catchable
\* fault that carried no node gives it the outcome's node, and one that
\* carried a node keeps it.
C2_CapturedFaultReturned ==
    /\ [](\A t \in Tasks :
            exc[t].cls \in Captured =>
                /\ pc[t] # "raised"
                /\ ~raising[t]
                /\ pc[t] \in {"finally", "returned"} => C2_OutcomeOfCaptured(t))
    /\ [][\A t \in Tasks :
            (pc[t] = "except" /\ pc'[t] # "except" /\ exc[t].cls \in catchable_errors)
              => exc'[t].node = IF exc[t].node = NoNode THEN result'[t].node
                                ELSE exc[t].node]_vars

\* t1: compile raised a catchable fault without a node; t2: execute raised
\* one that carried a node; both were returned as outcomes
C2_Witness ==
    /\ pc["t1"] = "returned"
    /\ exc["t1"].cls = CompilationException
    /\ compiled_node["t1"] = NoNode
    /\ exc["t1"].node = node["t1"]
    /\ pc["t2"] = "returned"
    /\ exc["t2"].cls = RuntimeException
    /\ compiled_node["t2"] # NoNode
    /\ exc["t2"].node = UpstreamNode
    /\ result["t2"].node = compiled_node["t2"]

\* C3: a fault that is neither catchable nor internal is never turned into
\* an outcome: safe_run does not return, no error is written to the result,
\* the fault in flight stays the same fault, and it has left safe_run only
\* after release_connection was called.
C3_UnclassifiedPropagates ==
    /\ [](\A t \in Tasks :
            (exc[t] # NoFault /\ exc[t].cls \notin Captured) =>
                /\ pc[t] # "returned"
                /\ result[t].error = None
                /\ pc[t] = "raised" =>
                     /\ raising[t]
                     /\ CountOp(calls[t], "release_connection") = 1)
    /\ [](\A t \in Tasks : raising[t] => exc[t].cls \notin Captured \cup {None})
    /\ [][\A t \in Tasks :
            (exc[t] # NoFault /\ exc[t].cls \notin Captured) => exc'[t] = exc[t]]_vars

\* an unclassified fault of execute has reached the caller of safe_run
C3_Witness ==
    \E t \in Tasks :
        /\ pc[t] = "raised"
        /\ exc[t].cls = OtherException
        /\ compiled_node[t] # NoNode
        /\ CountOp(calls[t], "run") = 1
        /\ CountOp(calls[t], "release_connection") = 1
resource_type_is_model(t) == node[t].resource_type = "model"

\* the calls of a task that run a statement or a macro: the work of execute
ExecuteWork == {"macro", "load_result", "execute_and_fetch"}

\* C4: for a Model with materialization "ephemeral", safe_run calls compile
\* once and never run/execute, and when compile succeeds the outcome returned
\* is success-shaped (error null, skip false) on the compiled node; for any
\* other node (a non-Model whose materialization is "ephemeral" too) run is
\* called right after a successful compile.
C4_EphemeralModelNotRun ==
    \A t \in Tasks :
        /\ (resource_type_is_model(t) /\ node[t].materialization = "ephemeral") =>
             /\ \A i \in 1..Len(calls[t]) : calls[t][i].op \notin ExecuteWork \cup {"run"}
             /\ Left(t) => CountOp(calls[t], "compile") = 1
             /\ (pc[t] = "returned" /\ exc[t] = NoFault) =>
                  result[t] = [node |-> [node[t] EXCEPT !.compiled = TRUE],
                               error |-> None, skip |-> FALSE, status |-> None,
                               fail |-> None]
        /\ (~(resource_type_is_model(t) /\ node[t].materialization = "ephemeral")
              /\ compiled_node[t] # NoNode /\ pc[t] # "compiled") =>
             /\ Len(calls[t]) >= 2
             /\ calls[t][1].op = "compile"
             /\ calls[t][2].op = "run"
             /\ CountOp(calls[t], "run") = 1

\* t1 is an ephemeral Model returned from its compiled node alone; t2 is an
\* ephemeral Test that was run
C4_Witness ==
    /\ node["t1"].resource_type = Model
    /\ node["t1"].materialization = "ephemeral"
    /\ pc["t1"] = "returned"
    /\ exc["t1"] = NoFault
    /\ result["t1"].node = compiled_node["t1"]
    /\ compiled_node["t1"] # NoNode
    /\ node["t2"].resource_type = Test
    /\ node["t2"].materialization = "ephemeral"
    /\ pc["t2"] = "returned"
    /\ CountOp(calls["t2"], "run") = 1

\* the lifecycle state of the node of a task
State(t) ==
    CASE pc[t] = "pending" -> "Pending"
      [] pc[t] = "skipped" -> "Skipped"
      [] pc[t] = "compiling" -> "Compiling"
      [] pc[t] = "compiled" -> "Compiled"
      [] pc[t] = "executing" -> "Executing"
      [] OTHER -> IF exc[t] # NoFault THEN "Errored" ELSE "Succeeded"

Lifecycle ==
    { <<"Pending", "Compiling">>, <<"Pending", "Skipped">>,
      <<"Compiling", "Errored">>, <<"Compiling", "Compiled">>,
      <<"Compiled", "Executing">>, <<"Compiled", "Succeeded">>,
      <<"Executing", "Errored">>, <<"Executing", "Succeeded">> }

\* C5: a node goes Pending -> Compiling -> {Errored | Compiled ->
\* [Executing ->] {Errored | Succeeded}}, or Pending -> Skipped, and
\* Errored, Succeeded and Skipped are final; compile is called once and
\* first, run at most once and only after compile returned without a fault,
\* neither is called once the node is Errored or Succeeded, and a Skipped
\* node was never compiled or run.
C5_Lifecycle ==
    /\ [](\A t \in Tasks :
            /\ CountOp(calls[t], "compile") <= 1
            /\ CountOp(calls[t], "run") <= 1
            /\ InSafeRun(t) => calls[t][1].op = "compile"
            /\ CountOp(calls[t], "run") = 1 =>
                 /\ compiled_node[t] # NoNode
                 /\ calls[t][2].op = "run"
            /\ State(t) = "Compiled" => exc[t] = NoFault
            /\ State(t) = "Executing" => exc[t] = NoFault
            /\ State(t) = "Skipped" =>
                 /\ CountOp(calls[t], "compile") = 0
                 /\ CountOp(calls[t], "run") = 0)
    /\ [][\A t \in Tasks :
            /\ State(t)' # State(t) => <<State(t), State(t)'>> \in Lifecycle
            /\ State(t) \in {"Errored", "Succeeded", "Skipped"} =>
                 /\ CountOp(calls'[t], "compile") = CountOp(calls[t], "compile")
                 /\ CountOp(calls'[t], "run") = CountOp(calls[t], "run")
                 /\ \A op \in ExecuteWork :
                      CountOp(calls'[t], op) = CountOp(calls[t], op)]_vars

\* one node was skipped from Pending and the other ran through Executing to
\* Errored
C5_Witness ==
    /\ pc["t1"] = "skipped"
    /\ calls["t1"] = << Op("print_skip_line", "t1") >>
    /\ pc["t2"] = "returned"
    /\ CountOp(calls["t2"], "run") = 1
    /\ State("t2") = "Errored"
(* ================== properties: the batch hooks ======================= *)
\* the places of the calls of `op` in the adapter calls of the batch hook
Places(op) == { i \in 1..Len(adapter_calls) : adapter_calls[i].op = op }

\* C6: in a hook phase (on-run-start or on-run-end, any number of hooks)
\* clear_transaction is called before the first hook statement, and every
\* hook statement goes through execute_one with auto_begin=False.
C6_ClearBeforeFirstHook ==
    \A i \in Places("execute_one") :
        /\ adapter_calls[i].auto_begin = "False"
        /\ \E j \in Places("clear_transaction") : j < i

\* a phase with two hooks has run both statements
C6_Witness ==
    /\ bpc = "done"
    /\ Len(hooks) = 2
    /\ Cardinality(Places("execute_one")) = 2

\* C7: every hook statement is immediately preceded, after the previous
\* hook's statement and any connection release, by a transaction-clear: a
\* clear_transaction lies between each execute_one and the execute_one
\* before it.
C7_ClearBeforeEveryHook ==
    \A i \in Places("execute_one") :
        \E j \in Places("clear_transaction") :
            /\ j < i
            /\ \A k \in Places("execute_one") : ~(j < k /\ k < i)

\* C8: in a fault-free hook phase, with any number of hooks (zero too), the
\* connection clear_transaction obtained is released exactly once, and after
\* the last hook statement.
C8_ReleasedOnceAfterLastHook ==
    (bpc = "done") =>
        /\ Cardinality(Places("release_connection")) = 1
        /\ \A r \in Places("release_connection") :
             \A i \in Places("execute_one") : i < r

\* a fault is in flight in the batch hook
BatchFault == bexc # NoFault

\* C9: a fault raised in a hook phase (compiling a hook, validating it under
\* STRICT_MODE, or running its statement), of any class, RuntimeException
\* too, leaves before_run / after_run: the call never completes normally,
\* the fault is not replaced, nothing but its propagation follows it, and no
\* further adapter call is made after it.
C9_HookFaultPropagates ==
    /\ [](BatchFault => bpc \in {"hooks_except", "raised"})
    /\ [][BatchFault =>
            /\ bpc' = "raised"
            /\ bexc' = bexc
            /\ adapter_calls' = adapter_calls]_vars

\* the statement of the first of two hooks raised a RuntimeException, which
\* reached the caller with the second statement never run
C9_Witness ==
    /\ bpc = "raised"
    /\ bexc.cls = RuntimeException
    /\ Len(hooks) = 2
    /\ Len(compiled_hooks) = 2
    /\ Cardinality(Places("execute_one")) = 1

\* the schemas of the Models of the graph that are not ephemeral
RequiredSchemas ==
    { s \in Schemas :
        \E i \in 1..Len(flat_graph) :
            /\ flat_graph[i].resource_type = "model"
            /\ flat_graph[i].materialization # "ephemeral"
            /\ flat_graph[i].schema = s }

\* the schemas create_schema was called with
CreatedSchemas == { adapter_calls[i].arg : i \in Places("create_schema") }

\* create_schemas has returned: run_hooks has been entered
CreateSchemasReturned == Places("clear_transaction") # {}

\* C10: before_run calls create_schema once for each schema in (required -
\* existing) and for no other schema: never twice for a schema, never for an
\* existing or a not required one, and once create_schemas has returned for
\* every one of them; with required a subset of existing it is never called.
C10_CreatesExactlyMissing ==
    /\ Cardinality(Places("create_schema")) = Cardinality(CreatedSchemas)
    /\ CreatedSchemas \subseteq RequiredSchemas \ existing
    /\ (phase = "before_run" /\ CreateSchemasReturned) =>
          CreatedSchemas = RequiredSchemas \ existing
    /\ RequiredSchemas \subseteq existing => Places("create_schema") = {}

\* required {a, b} with an ephemeral Model beside, existing {a}: b alone was
\* created
C10_Witness ==
    /\ phase = "before_run"
    /\ bpc = "done"
    /\ RequiredSchemas = {"a", "b"}
    /\ \E i \in 1..Len(flat_graph) : flat_graph[i].materialization = "ephemeral"
    /\ existing = {"a"}
    /\ Cardinality(Places("create_schema")) = 1
    /\ CreatedSchemas = {"b"}

\* how many hooks of a phase the graph holds
HooksOf(tag) ==
    Cardinality({ i \in 1..Len(flat_graph) :
                    flat_graph[i].resource_type = "operation" /\ flat_graph[i].tag = tag })

\* the places of the summary line among the lines emitted
SummaryLines == { i \in 1..Len(printed) : printed[i] = "Finished running" }

\* C11: the batch phases are ordered. In before_run every create_schema call
\* comes before clear_transaction and before every hook statement, and at the
\* transaction-clear all of (required - existing) has been created; in
\* after_run the summary line is emitted only when every on-run-end hook
\* statement has been executed, no adapter call follows it, it is emitted at
\* most once, exactly once by a fault-free after_run, and never by
\* before_run or by an after_run that raised.
C11_PhasesOrdered ==
    /\ [](/\ \A i \in Places("create_schema") :
               \A j \in Places("clear_transaction") \cup Places("execute_one") : i < j
          /\ (phase = "before_run" /\ Places("clear_transaction") # {}) =>
               CreatedSchemas = RequiredSchemas \ existing
          /\ Cardinality(SummaryLines) <= 1
          /\ SummaryLines # {} =>
               /\ phase = "after_run"
               /\ bpc = "done"
               /\ Cardinality(Places("execute_one")) = HooksOf("on-run-end")
          /\ (phase = "after_run" /\ bpc = "done") => Cardinality(SummaryLines) = 1
          /\ bpc = "raised" => SummaryLines = {})
    /\ [][SummaryLines # {} => adapter_calls' = adapter_calls]_vars

\* before_run created two schemas, then cleared the transaction and ran a hook
C11_Witness ==
    /\ phase = "before_run"
    /\ bpc = "done"
    /\ Cardinality(Places("create_schema")) = 2
    /\ Cardinality(Places("execute_one")) = 1

(* ===================== properties: TestRunner ========================= *)
\* execute_test of task t has fetched rows and has dealt with them
Fetched(t) == runner[t] = "TestRunner" /\ fetched[t].done

\* the column count of a row set (none when there is no row)
NumCols(rows) == IF Len(rows) = 0 THEN 0 ELSE Len(rows[1])

\* the fault in flight in task t is the descriptive fault of a bad test: its
\* text states the test's name, the row count and the column count
DescriptiveFault(t) ==
    /\ exc[t].cls = "RuntimeError"
    /\ exc[t].msg = "Bad test " \o node[t].name \o ": Returned "
                      \o ToString(Len(fetched[t].rows)) \o " rows and "
                      \o ToString(NumCols(fetched[t].rows)) \o " cols"

\* C12: execute_test returns the single scalar when the assertion query
\* yields one row of one column (it becomes the status of the outcome), and
\* when the query yields two or more rows it raises a fault whose message
\* names the test, the row count and the column count, and row 0's value is
\* never returned.
C12_ScalarOrBadTest ==
    \A t \in Tasks :
        Fetched(t) =>
            LET rows == fetched[t].rows IN
            /\ (Len(rows) = 1 /\ Len(rows[1]) = 1) =>
                 /\ exc[t] = NoFault
                 /\ result[t].status = rows[1][1]
                 /\ result[t].error = None
            /\ Len(rows) >= 2 =>
                 /\ DescriptiveFault(t)
                 /\ result[t].status = None

\* one test got its scalar from a one-row, one-column result; the other
\* got two rows of two columns and raised
C12_Witness ==
    /\ Fetched("t1")
    /\ Len(fetched["t1"].rows) = 1
    /\ Len(fetched["t1"].rows[1]) = 1
    /\ pc["t1"] = "returned"
    /\ result["t1"].status = "3"
    /\ Fetched("t2")
    /\ Len(fetched["t2"].rows) = 2
    /\ exc["t2"].msg = "Bad test t2: Returned 2 rows and 2 cols"

\* C13: when the result of the assertion query has no column (or no row at
\* all), execute_test raises the descriptive fault stating the test name,
\* the row count and the column count, and does not fail in some other way
\* while reading row 0 / column 0.
C13_NoColumnIsBadTest ==
    \A t \in Tasks :
        (Fetched(t) /\ NumCols(fetched[t].rows) = 0) => DescriptiveFault(t)

(* ================= properties: on_skip and outcomes =================== *)
\* C14: on_skip returns an outcome with skip=true, error null and the
\* runner's node, calling neither compile nor execute nor the adapter; it
\* emits the skip line if and only if the node is not an ephemeral Model.
C14_OnSkip ==
    \A t \in Tasks :
        pc[t] = "skipped" =>
            /\ result[t] = [node |-> node[t], error |-> None, skip |-> TRUE,
                            status |-> None, fail |-> None]
            /\ exc[t] = NoFault
            /\ calls[t] =
                 IF node[t].resource_type = "model" /\ node[t].materialization = "ephemeral"
                   THEN << >>
                   ELSE << [op |-> "print_skip_line", arg |-> node[t].name] >>

\* an ephemeral Model skipped without a line, an ephemeral Test skipped with
\* one
C14_Witness ==
    /\ pc["t1"] = "skipped"
    /\ node["t1"].resource_type = Model
    /\ node["t1"].materialization = "ephemeral"
    /\ calls["t1"] = << >>
    /\ pc["t2"] = "skipped"
    /\ node["t2"].resource_type = Test
    /\ node["t2"].materialization = "ephemeral"
    /\ Len(calls["t2"]) = 1

\* C15: no outcome made by on_skip or by safe_run (success, ephemeral,
\* catchable-fault or internal-fault path) has both skip=true and a non-null
\* error, whatever the node and whatever compile and execute do.
C15_NeverSkippedAndErrored ==
    \A t \in Tasks : ~(result[t].skip /\ result[t].error # None)

\* a skipped outcome beside an errored one
C15_Witness ==
    /\ pc["t1"] = "skipped"
    /\ result["t1"].skip
    /\ result["t1"].error = None
    /\ pc["t2"] = "returned"
    /\ result["t2"].error # None
    /\ ~result["t2"].skip

(* ===================== properties: ModelRunner ======================== *)
\* the lookup of the materialization macro of task t found none
MacroMissing(t) ==
    \E i \in 1..Len(calls[t]) :
        calls[t][i] = [op |-> "get_materialization_macro", arg |-> "None"]

\* C16: when no materialization macro is registered for the node's
\* materialization and the adapter kind, ModelRunner.execute raises the
\* missing-materialization fault, made of the node and the adapter kind,
\* calls no macro and does not read the "main" result; through safe_run the
\* outcome is an errored one, not a success, and nothing is raised to the
\* caller.
C16_MissingMaterialization ==
    \A t \in Tasks :
        MacroMissing(t) =>
            /\ exc[t].msg = "No materialization " \o node[t].materialization
                              \o " for adapter postgres"
            /\ exc[t].node = [node[t] EXCEPT !.compiled = TRUE]
            /\ CountOp(calls[t], "macro") = 0
            /\ CountOp(calls[t], "load_result") = 0
            /\ pc[t] # "raised"
            /\ ~raising[t]
            /\ pc[t] = "returned" =>
                 /\ result[t].error = exc[t].msg
                 /\ result[t].status = "ERROR"

\* a table model without a macro came back from safe_run as an errored
\* outcome
C16_Witness ==
    \E t \in Tasks :
        /\ MacroMissing(t)
        /\ runner[t] = "ModelRunner"
        /\ pc[t] = "returned"
        /\ result[t].status = "ERROR"

\* the calls of a fault-free safe_run of a model whose macro is registered
\* and deposits status s
ModelCalls(t, s) ==
    << [op |-> "compile", arg |-> node[t].name],
       [op |-> "run", arg |-> node[t].name],
       [op |-> "get_materialization_macro", arg |-> "macro"],
       [op |-> "macro", arg |-> s],
       [op |-> "load_result", arg |-> "main"] >>

\* C17: for a non-ephemeral model whose materialization macro is registered
\* and runs without fault, safe_run calls the macro once and then reads the
\* result under "main"; the outcome is {node: the compiled model, error:
\* null, skip: false, status: the status of the "main" result}.
C17_ModelOutcome ==
    \A t \in Tasks :
        (runner[t] \in {"ModelRunner", "ArchiveRunner"}
           /\ pc[t] \in {"finally", "returned", "raised"} /\ exc[t] = NoFault
           /\ ~(node[t].resource_type = "model" /\ node[t].materialization = "ephemeral")) =>
            \E s \in Statuses :
                /\ pc[t] # "raised"
                /\ \/ calls[t] = ModelCalls(t, s)
                   \/ calls[t] = Append(ModelCalls(t, s),
                                        [op |-> "release_connection", arg |-> node[t].name])
                /\ result[t] = [node |-> [node[t] EXCEPT !.compiled = TRUE],
                                error |-> None, skip |-> FALSE, status |-> s,
                                fail |-> None]

\* a table model whose macro deposited "CREATE TABLE"
C17_Witness ==
    \E t \in Tasks :
        /\ runner[t] = "ModelRunner"
        /\ node[t].materialization = "table"
        /\ pc[t] = "returned"
        /\ result[t] = [node |-> compiled_node[t], error |-> None, skip |-> FALSE,
                        status |-> "CREATE TABLE", fail |-> None]
        /\ CountOp(calls[t], "macro") = 1

(* ==================== properties: concurrent tasks ==================== *)
\* what safe_run of task t has made of its own compile / execute results,
\* once past the except clauses
OwnOutcome(t) ==
    /\ result[t].node \in {node[t], [node[t] EXCEPT !.compiled = TRUE]}
    /\ result[t].error = IF exc[t].cls \in Captured THEN exc[t].msg ELSE None
    /\ result[t].status =
         IF exc[t].cls \in Captured THEN "ERROR"
         ELSE IF exc[t] # NoFault THEN None
         ELSE IF CountOp(calls[t], "macro") = 1
           THEN calls[t][4].arg
         ELSE IF fetched[t].done THEN fetched[t].rows[1][1]
         ELSE None

\* C18: with several tasks in safe_run at once on separate runners and
\* distinct nodes, under every interleaving each task releases its own
\* connection, exactly once by the time it has left safe_run, and never
\* another task's; its outcome (node, error, status) is made of its own
\* compile / execute results alone, and a step of one task (a fault captured
\* in it too) leaves every other task's outcome, fault and calls as they
\* were.
C18_TasksIndependent ==
    /\ [](\A t \in Tasks :
            /\ \A i \in 1..Len(calls[t]) :
                 calls[t][i].op = "release_connection" => calls[t][i].arg = node[t].name
            /\ Left(t) => CountOp(calls[t], "release_connection") = 1
            /\ pc[t] \in {"finally", "returned", "raised"} => OwnOutcome(t))
    /\ [][\A t \in Tasks : \A u \in Tasks \ {t} :
            pc'[u] # pc[u] =>
                /\ result'[t] = result[t]
                /\ exc'[t] = exc[t]
                /\ calls'[t] = calls[t]
                /\ pc'[t] = pc[t]]_vars

\* t2 has returned a success and released its connection while t1, with a
\* captured fault, is still inside safe_run and has not released its own
C18_Witness ==
    /\ pc["t1"] = "finally"
    /\ result["t1"].error # None
    /\ CountOp(calls["t1"], "release_connection") = 0
    /\ pc["t2"] = "returned"
    /\ result["t2"].error = None
    /\ result["t2"].status = "CREATE TABLE"
    /\ calls["t2"][Len(calls["t2"])] = Op("release_connection", "t2")

\* C19: when the assertion query of a TestRunner returns two or more rows
\* during safe_run, the bad-test fault is not captured into an outcome: no
\* error or status is written, safe_run does not return, and the fault
\* leaves safe_run after the connection was released.
C19_BadTestUnclassified ==
    \A t \in Tasks :
        (Fetched(t) /\ Len(fetched[t].rows) >= 2) =>
            /\ pc[t] \in {"except", "finally", "raised"}
            /\ result[t].error = None
            /\ result[t].status # "ERROR"
            /\ pc[t] \in {"finally", "raised"} => raising[t]
            /\ pc[t] = "raised" =>
                 calls[t][Len(calls[t])] = [op |-> "release_connection", arg |-> node[t].name]

\* the bad-test fault of a two-row result has reached the caller
C19_Witness ==
    \E t \in Tasks :
        /\ Fetched(t)
        /\ Len(fetched[t].rows) = 2
        /\ pc[t] = "raised"
        /\ exc[t].cls = RuntimeError
        /\ CountOp(calls[t], "release_connection") = 1

(* =================== properties: hook compilation ===================== *)
\* C20: within a hook phase all hooks are compiled before any hook statement
\* is executed: while a hook is still to be compiled, and so when compiling
\* any hook (the last one too) has raised, no hook statement has been
\* executed, although the transaction-clear has happened.
C20_CompiledBeforeExecuted ==
    /\ Places("execute_one") # {} => Len(compiled_hooks) = Len(hooks)
    /\ Len(compiled_hooks) < Len(hooks) =>
         /\ Places("execute_one") = {}
         /\ Places("clear_transaction") # {}

\* compiling the second of two hooks raised: the phase ended with the
\* transaction cleared and no statement run
C20_Witness ==
    /\ bpc = "raised"
    /\ Len(hooks) = 2
    /\ Len(compiled_hooks) = 1
    /\ Places("execute_one") = {}
    /\ Cardinality(Places("clear_transaction")) = 1
====
